---- MODULE Spec2Model ----
(***************************************************************************)
(* scripts/do-partition.py: load a graph, partition it in subsets on a     *)
(* pool of worker threads that checkpoint every subset in a .pmap file,    *)
(* merge the .pmap files, annotate the input files.                        *)
(*                                                                         *)
(* The main thread (main) and the worker threads (worker) are processes;   *)
(* the file system holds the checkpoint files  <graphbase>.subset.<i>.pmap *)
(* (disk) and the annotated outputs  <basename>.part  (parts).             *)
(***************************************************************************)
EXTENDS Integers, Sequences, FiniteSets, TLC

\* ------------------------------------------------------------- bounds
MaxTags == 3            \* the index domain sizes are 0..MaxTags
MaxSubsetSize == 2      \* --subset-size is 1..MaxSubsetSize
MaxThreads == 2         \* --threads is 0..MaxThreads
MaxDomain == 10         \* SpecTasks: the index domain sizes and the subset sizes

\* ---------------------------------------------------- program constants
FpThreshold == 150      \* 0.15, in thousandths

\* fp rates the engine reports, in thousandths: at the threshold and above it
FpRates == {FpThreshold, 200}

VARIABLES
    force,              \* args.force
    remove_subsets,     \* args.remove_subsets (False under --keep-subsets)
    subset_size,        \* int(args.subset_size)
    threads,            \* args.threads
    input_filenames,    \* args.input_filenames, a sequence of paths
    n_tags,             \* the number of tags of htable: the index domain is [0, n_tags)
    fp_rate,            \* khmer.calc_expected_collisions(htable), -1 before the call
    pc,                 \* where the main thread is, or how it ended
    exit_status,        \* -1 while the process runs, then its exit status
    divvy,              \* the boundaries, with the trailing 0
    n_subsets,
    worker_q,           \* the Queue.Queue of (index, start, stop)
    wpc,                \* where each worker thread is
    witem,              \* the work item each worker holds
    disk,               \* the checkpoint files, by subset index
    prior,              \* the checkpoint files there were when the run began
    got,                \* per index, the times queue.get returned that item
    computed,           \* per index, the calls of do_subset_partition
    saved,              \* per index, the calls of save_subset_partitionmap that opened the file
    skipped,            \* the indexes a worker skipped as already existing
    pmap_files,         \* the glob's list, as the set of its indexes
    cursor,             \* the threads started so far (the loop of line 186)
    merged,             \* the checkpoint contents folded in the new htable
    unlinked,           \* the indexes os.unlink was called on
    parts               \* the annotated output files

vars == <<force, remove_subsets, subset_size, threads, input_filenames, n_tags,
          fp_rate, pc, exit_status, divvy, n_subsets, worker_q, wpc, witem,
          disk, prior, got, computed, saved, skipped, pmap_files, cursor,
          merged, unlinked, parts>>

Workers == 1..MaxThreads

\* the indexes a checkpoint file can have: those of a run over MaxTags tags
Indexes == 0..(MaxTags - 1)

\* ---------------------------------------------------------- the engine
\* htable.divide_tags_into_subsets(size): the boundary offsets 0, size, 2*size, ...
\* below the number of tags
CeilDiv(a, b) == (a + b - 1) \div b

divide_tags_into_subsets(ntags, size) ==
    [i \in 1..CeilDiv(ntags, size) |-> (i - 1) * size]

\* ------------------------------------------------------ the file system
\* a checkpoint file: the range its subset was computed over, whether
\* save_subset_partitionmap wrote it to the end, and whether this run wrote it
NoFile == [exists |-> FALSE, start |-> 0, stop |-> 0, whole |-> FALSE, fresh |-> FALSE]

PmapFile(start, stop, whole, fresh) ==
    [exists |-> TRUE, start |-> start, stop |-> stop, whole |-> whole, fresh |-> fresh]

\* the tasks with end = divvy[_] for divvy[_ + 1]
WorkItemsShifted(dv, n) ==
    [i \in 1..n |-> [index |-> i - 1, start |-> dv[i], stop |-> dv[i]]]

\* the tasks of lines 169-172: (index, divvy[index], divvy[index + 1]), the
\* index counted from 0 and dv holding the appended 0
WorkItems(dv, n) ==
    [i \in 1..n |-> [index |-> i - 1, start |-> dv[i], stop |-> dv[i + 1]]]

NoItem == [index |-> -1, start |-> 0, stop |-> 0]

\* what an earlier run with the same graphbase over MaxTags tags left on disk:
\* any of its checkpoint files
PriorItems(size) ==
    WorkItems(Append(divide_tags_into_subsets(MaxTags, size), 0), CeilDiv(MaxTags, size))

PriorDisk(size, kept) ==
    [i \in Indexes |->
        IF i \in kept
        THEN PmapFile(PriorItems(size)[i + 1].start, PriorItems(size)[i + 1].stop, TRUE, FALSE)
        ELSE NoFile]

PriorDisks ==
    UNION { {PriorDisk(size, kept) : kept \in SUBSET (0..(CeilDiv(MaxTags, size) - 1))} :
            size \in 1..MaxSubsetSize }

\* paths: os.path.basename drops the directory
Path(dir, name) == [dir |-> dir, name |-> name]
basename(path) == path.name

\* the input lists: three paths, two of them with the same file name
InputChoices ==
    { <<Path("a", "x"), Path("a", "y"), Path("b", "x")>> }

\* ------------------------------------------------------------------ Init
Init ==
    /\ force \in BOOLEAN
    /\ remove_subsets \in BOOLEAN
    /\ subset_size \in 1..MaxSubsetSize
    /\ threads \in 0..MaxThreads
    /\ input_filenames \in InputChoices
    /\ n_tags \in 0..MaxTags
    /\ fp_rate = -1
    /\ pc = "gate"
    /\ exit_status = -1
    /\ divvy = <<>>
    /\ n_subsets = 0
    /\ worker_q = <<>>
    /\ wpc = [w \in Workers |-> "none"]
    /\ witem = [w \in Workers |-> NoItem]
    /\ disk \in PriorDisks
    /\ prior = disk
    /\ got = [i \in Indexes |-> 0]
    /\ computed = [i \in Indexes |-> 0]
    /\ saved = [i \in Indexes |-> 0]
    /\ skipped = {}
    /\ pmap_files = {}
    /\ cursor = 0
    /\ merged = {}
    /\ unlinked = {}
    /\ parts = {}

\* ---------------------------------------------------------------- worker
\* a thread is live from its start to its return or its uncaught exception
Live(w) == wpc[w] \notin {"none", "exited", "failed"}

\* a get that leaves the head in the queue
QueuePeek(q) == q

\* a get whose item goes back to the end of the queue
QueueRequeue(q) == Append(Tail(q), Head(q))

\* queue.get(False), line 50: the head leaves the queue
QueueGet(q) == Tail(q)

\* a worker that never finds the checkpoint file
ExistsNever(index) == FALSE

\* the test of line 56 negated
ExistsInverted(index) == ~disk[index].exists

\* os.path.exists(outfile), lines 55-56
Exists(index) == disk[index].exists

\* a worker that asks again when the queue is empty
OnEmptyRetry == "get"

\* lines 51-53: on Queue.Empty the worker returns
OnEmpty == "exited"

\* lines 49-53: take the next task, or return when the queue is empty
Get(w) ==
    /\ wpc[w] = "get"
    /\ IF worker_q = <<>>
       THEN /\ wpc' = [wpc EXCEPT ![w] = OnEmpty]
            /\ UNCHANGED <<worker_q, witem, got>>
       ELSE /\ witem' = [witem EXCEPT ![w] = Head(worker_q)]
            /\ worker_q' = QueueGet(worker_q)
            /\ got' = [got EXCEPT ![Head(worker_q).index] = @ + 1]
            /\ wpc' = [wpc EXCEPT ![w] = "exists"]
    /\ UNCHANGED <<prior, force, remove_subsets, subset_size, threads, input_filenames,
                   n_tags, fp_rate, pc, exit_status, divvy, n_subsets, disk,
                   computed, saved, skipped, pmap_files, cursor, merged,
                   unlinked, parts>>

\* lines 55-58: skip the task when its checkpoint file exists
CheckExists(w) ==
    /\ wpc[w] = "exists"
    /\ IF Exists(witem[w].index)
       THEN /\ skipped' = skipped \cup {witem[w].index}
            /\ witem' = [witem EXCEPT ![w] = NoItem]
            /\ wpc' = [wpc EXCEPT ![w] = "get"]
       ELSE /\ wpc' = [wpc EXCEPT ![w] = "partition"]
            /\ UNCHANGED <<skipped, witem>>
    /\ UNCHANGED <<prior, force, remove_subsets, subset_size, threads, input_filenames,
                   n_tags, fp_rate, pc, exit_status, divvy, n_subsets, worker_q,
                   disk, got, computed, saved, pmap_files, cursor, merged,
                   unlinked, parts>>

\* lines 64-65: htable.do_subset_partition(start, stop, ...) returns, or raises
\* and ends the thread (nothing catches it)
Partition(w) ==
    /\ wpc[w] = "partition"
    /\ computed' = [computed EXCEPT ![witem[w].index] = @ + 1]
    /\ \E raised \in BOOLEAN :
         wpc' = [wpc EXCEPT ![w] = IF raised THEN "failed" ELSE "save"]
    /\ UNCHANGED <<prior, force, remove_subsets, subset_size, threads, input_filenames,
                   n_tags, fp_rate, pc, exit_status, divvy, n_subsets, worker_q,
                   witem, disk, got, saved, skipped, pmap_files, cursor, merged,
                   unlinked, parts>>

\* line 68, first half: save_subset_partitionmap opens outfile for writing, so
\* the file exists with part of the subset in it; or it raises before that
SaveOpen(w) ==
    /\ wpc[w] = "save"
    /\ \E raised \in BOOLEAN :
         IF raised
         THEN /\ wpc' = [wpc EXCEPT ![w] = "failed"]
              /\ UNCHANGED <<disk, saved>>
         ELSE /\ disk' = [disk EXCEPT ![witem[w].index] =
                             PmapFile(witem[w].start, witem[w].stop, FALSE, TRUE)]
              /\ saved' = [saved EXCEPT ![witem[w].index] = @ + 1]
              /\ wpc' = [wpc EXCEPT ![w] = "write"]
    /\ UNCHANGED <<prior, force, remove_subsets, subset_size, threads, input_filenames,
                   n_tags, fp_rate, pc, exit_status, divvy, n_subsets, worker_q,
                   witem, got, computed, skipped, pmap_files, cursor, merged,
                   unlinked, parts>>

\* a worker that returns after its first save
AfterSaveReturns == "exited"

\* line 48: the loop takes the next task after a save
AfterSave == "get"

\* line 68, second half, and lines 69-70: the file is written to its end and
\* the loop goes on; or the write raises and leaves the file as it is
SaveClose(w) ==
    /\ wpc[w] = "write"
    /\ \E raised \in BOOLEAN :
         IF raised
         THEN /\ wpc' = [wpc EXCEPT ![w] = "failed"]
              /\ UNCHANGED <<disk, witem>>
         ELSE /\ disk' = [disk EXCEPT ![witem[w].index].whole = TRUE]
              /\ witem' = [witem EXCEPT ![w] = NoItem]
              /\ wpc' = [wpc EXCEPT ![w] = AfterSave]
    /\ UNCHANGED <<prior, force, remove_subsets, subset_size, threads, input_filenames,
                   n_tags, fp_rate, pc, exit_status, divvy, n_subsets, worker_q,
                   got, computed, saved, skipped, pmap_files, cursor, merged,
                   unlinked, parts>>

worker(w) ==
    \/ Get(w)
    \/ CheckExists(w)
    \/ Partition(w)
    \/ SaveOpen(w)
    \/ SaveClose(w)

\* ------------------------------------------------------------------ main
Min(a, b) == IF a < b THEN a ELSE b

\* a gate that does not look at --force
GateNoForce(rate, forced) == rate > FpThreshold

\* lines 136-143: the run stops when the fp rate is above 0.15, unless --force
GateAborts(rate, forced) == rate > FpThreshold /\ ~forced

\* lines 107-143: load the graph, estimate the fp rate, sys.exit(1) on a high one
Gate ==
    /\ pc = "gate"
    /\ \E rate \in FpRates :
         /\ fp_rate' = rate
         /\ IF GateAborts(rate, force)
            THEN pc' = "exit_gate" /\ exit_status' = 1
            ELSE pc' = "divide" /\ UNCHANGED exit_status
    /\ UNCHANGED <<prior, force, remove_subsets, subset_size, threads, input_filenames,
                   n_tags, divvy, n_subsets, worker_q, wpc, witem, disk, got,
                   computed, saved, skipped, pmap_files, cursor, merged,
                   unlinked, parts>>

\* lines 161-163
Divide ==
    /\ pc = "divide"
    /\ n_subsets' = Len(divide_tags_into_subsets(n_tags, subset_size))
    /\ divvy' = Append(divide_tags_into_subsets(n_tags, subset_size), 0)
    /\ pc' = "enqueue"
    /\ UNCHANGED <<prior, force, remove_subsets, subset_size, threads, input_filenames,
                   n_tags, fp_rate, exit_status, worker_q, wpc, witem, disk, got,
                   computed, saved, skipped, pmap_files, cursor, merged,
                   unlinked, parts>>

\* a pool of the configured size, whatever the number of tasks
PoolSizeConfigured(configured, n) == configured

\* lines 178-179
PoolSize(configured, n) == Min(configured, n)

\* lines 166-179: one task per subset in the queue, no more threads than tasks
Enqueue ==
    /\ pc = "enqueue"
    /\ worker_q' = WorkItems(divvy, n_subsets)
    /\ threads' = PoolSize(threads, n_subsets)
    /\ cursor' = 0
    /\ pc' = "start"
    /\ UNCHANGED <<prior, force, remove_subsets, subset_size, input_filenames, n_tags,
                   fp_rate, exit_status, divvy, n_subsets, wpc, witem, disk, got,
                   computed, saved, skipped, pmap_files, merged, unlinked, parts>>

\* lines 185-191: one more thread started; cursor counts the threads started
StartThread ==
    /\ pc = "start"
    /\ cursor < threads
    /\ wpc' = [wpc EXCEPT ![cursor + 1] = "get"]
    /\ cursor' = cursor + 1
    /\ UNCHANGED <<prior, force, remove_subsets, subset_size, threads, input_filenames,
                   n_tags, fp_rate, pc, exit_status, divvy, n_subsets, worker_q,
                   witem, disk, got, computed, saved, skipped, pmap_files, merged,
                   unlinked, parts>>

\* threading.active_count(): the live workers and the main thread
active_count == Cardinality({w \in Workers : Live(w)}) + 1

\* line 193: the assertion; an AssertionError ends the main thread, and the
\* process exits with status 1 once the workers have ended
AssertActive ==
    /\ pc = "start"
    /\ cursor >= threads
    /\ IF active_count = threads + 1
       THEN pc' = "join" /\ UNCHANGED exit_status
       ELSE pc' = "raised_assert" /\ exit_status' = 1
    /\ UNCHANGED <<prior, force, remove_subsets, subset_size, threads, input_filenames,
                   n_tags, fp_rate, divvy, n_subsets, worker_q, wpc, witem, disk,
                   got, computed, saved, skipped, pmap_files, cursor, merged,
                   unlinked, parts>>

\* a join of the first thread alone
JoinedFirst == threads >= 1 => ~Live(1)

\* lines 198-199: every thread of the list has been joined
Joined == \A w \in 1..threads : ~Live(w)

Join ==
    /\ pc = "join"
    /\ Joined
    /\ pc' = "glob"
    /\ UNCHANGED <<prior, force, remove_subsets, subset_size, threads, input_filenames,
                   n_tags, fp_rate, exit_status, divvy, n_subsets, worker_q, wpc,
                   witem, disk, got, computed, saved, skipped, pmap_files, cursor,
                   merged, unlinked, parts>>

\* glob.glob(graphbase + '.subset.*.pmap'), line 207: the checkpoint files there
\* are. The list's order is unspecified: the loop that reads it draws it
Glob == {i \in Indexes : disk[i].exists}

\* a listing whose first element is never read
NoPmapsUnchecked(files) == FALSE

\* pmap_files[0], line 210, raises IndexError on an empty list
NoPmaps(files) == files = {}

\* lines 207-212: list the checkpoint files; the IndexError ends the main thread
ListPmaps ==
    /\ pc = "glob"
    /\ pmap_files' = Glob
    /\ IF NoPmaps(Glob)
       THEN pc' = "raised_glob" /\ exit_status' = 1
       ELSE pc' = "merge" /\ UNCHANGED exit_status
    /\ UNCHANGED <<prior, force, remove_subsets, subset_size, threads, input_filenames,
                   n_tags, fp_rate, divvy, n_subsets, worker_q, wpc, witem, disk,
                   got, computed, saved, skipped, cursor, merged, unlinked, parts>>

\* htable.merge_subset_from_disk(pmap_file), line 216: the fresh htable takes in
\* what the file holds
Folded(index) ==
    [index |-> index, start |-> disk[index].start, stop |-> disk[index].stop,
     whole |-> disk[index].whole]

\* no fold loop: the cleanup comes right after the listing
ToFoldNone == {}

\* a loop that stops after the first file of the list
ToFoldFirst == IF merged = {} THEN pmap_files ELSE {}

\* the files of the list the loop of line 214 has still to reach
ToFold == {i \in pmap_files : \A m \in merged : m.index # i}

\* lines 214-216: fold the next file of the list, whichever the list has there;
\* a raise ends the main thread
Merge ==
    /\ pc = "merge"
    /\ \E pmap_file \in ToFold, raised \in BOOLEAN :
         IF raised
         THEN /\ pc' = "raised_merge" /\ exit_status' = 1
              /\ UNCHANGED merged
         ELSE /\ merged' = merged \cup {Folded(pmap_file)}
              /\ UNCHANGED <<pc, exit_status>>
    /\ UNCHANGED <<prior, force, remove_subsets, subset_size, threads, input_filenames,
                   n_tags, fp_rate, divvy, n_subsets, worker_q, wpc, witem, disk,
                   got, computed, saved, skipped, pmap_files, cursor, unlinked, parts>>

\* line 218 negated
RemovesInverted == ~remove_subsets

\* a cleanup that does not look at --keep-subsets
RemovesAlways == TRUE

\* line 218
RemovesSubsets == remove_subsets

\* lines 218-221, after the last fold: os.unlink of every file of the list
Cleanup ==
    /\ pc = "merge"
    /\ ToFold = {}
    /\ IF RemovesSubsets
       THEN /\ disk' = [i \in Indexes |-> IF i \in pmap_files THEN NoFile ELSE disk[i]]
            /\ unlinked' = pmap_files
       ELSE UNCHANGED <<disk, unlinked>>
    /\ pc' = "annotate"
    /\ UNCHANGED <<prior, force, remove_subsets, subset_size, threads, input_filenames,
                   n_tags, fp_rate, exit_status, divvy, n_subsets, worker_q, wpc,
                   witem, got, computed, saved, skipped, pmap_files, cursor, merged,
                   parts>>

\* line 227: os.path.basename(infile) + '.part', named by what precedes '.part'
PartName(infile) == basename(infile)

\* htable.output_partitions(infile, outfile), line 228, for the first k inputs
\* in turn: each writes its output file, over a file of that name if there is one
RECURSIVE OutputPartitions(_, _)
OutputPartitions(infiles, k) ==
    IF k = 0
    THEN {}
    ELSE {f \in OutputPartitions(infiles, k - 1) : f.name # PartName(infiles[k])}
             \cup {[name |-> PartName(infiles[k]), from |-> infiles[k]]}

\* lines 225-231: annotate every input, then main returns
Annotate ==
    /\ pc = "annotate"
    /\ parts' = OutputPartitions(input_filenames, Len(input_filenames))
    /\ pc' = "returned"
    /\ exit_status' = 0
    /\ UNCHANGED <<prior, force, remove_subsets, subset_size, threads, input_filenames,
                   n_tags, fp_rate, divvy, n_subsets, worker_q, wpc, witem, disk,
                   got, computed, saved, skipped, pmap_files, cursor, merged,
                   unlinked>>

main ==
    \/ Gate
    \/ Divide
    \/ Enqueue
    \/ StartThread
    \/ AssertActive
    \/ Join
    \/ ListPmaps
    \/ Merge
    \/ Cleanup
    \/ Annotate

Next == main \/ \E w \in Workers : worker(w)

Spec == Init /\ [][Next]_vars

\* the same under a fair scheduler: a thread that can take a step takes one
Fairness == WF_vars(main) /\ \A w \in Workers : WF_vars(worker(w))

SpecFair == Init /\ [][Next]_vars /\ Fairness

\* ------------------------------------------- the task partitioner alone
\* main up to the start of the threads, over larger domains: no checkpoint
\* file, no thread
InitTasks ==
    /\ force \in BOOLEAN
    /\ remove_subsets = TRUE
    /\ subset_size \in 1..MaxDomain
    /\ threads = 0
    /\ input_filenames = <<Path("a", "x")>>
    /\ n_tags \in 0..MaxDomain
    /\ fp_rate = -1
    /\ pc = "gate"
    /\ exit_status = -1
    /\ divvy = <<>>
    /\ n_subsets = 0
    /\ worker_q = <<>>
    /\ wpc = [w \in Workers |-> "none"]
    /\ witem = [w \in Workers |-> NoItem]
    /\ disk = [i \in Indexes |-> NoFile]
    /\ prior = disk
    /\ got = [i \in Indexes |-> 0]
    /\ computed = [i \in Indexes |-> 0]
    /\ saved = [i \in Indexes |-> 0]
    /\ skipped = {}
    /\ pmap_files = {}
    /\ cursor = 0
    /\ merged = {}
    /\ unlinked = {}
    /\ parts = {}

NextTasks == Gate \/ Divide \/ Enqueue

SpecTasks == InitTasks /\ [][NextTasks]_vars

\* ---------------------------------------------------- what the claims use
Ended == {"exit_gate", "raised_assert", "raised_glob", "raised_merge", "returned"}

\* n_subsets, divvy and the queue are set
Planned == pc \notin {"gate", "exit_gate", "divide", "enqueue"}

\* every thread of the pool was started and has ended
WorkersEnded ==
    /\ Planned
    /\ pc = "start" => cursor >= threads
    /\ \A w \in Workers : ~Live(w)

\* some worker ended by an uncaught exception
Failed == \E w \in Workers : wpc[w] = "failed"

\* the half-open range [a, b)
Span(a, b) == {x \in 0..(b - 1) : x >= a}

\* ------------------------------------------------------------------- C1
\* C1: every work item is returned by queue.get at most once, no two workers
\* hold the same index, and for every index do_subset_partition is called and
\* the checkpoint file is opened for writing at most once in the run.
C1_AtMostOnce ==
    /\ \A i \in Indexes : got[i] <= 1 /\ computed[i] <= 1 /\ saved[i] <= 1
    /\ \A v, w \in Workers :
         v # w /\ witem[v] # NoItem => witem[v].index # witem[w].index

\* two workers write two checkpoint files at the same time
C1_Witness ==
    \E v, w \in Workers :
        /\ v # w
        /\ wpc[v] = "write" /\ wpc[w] = "write"
        /\ witem[v].index # witem[w].index

\* ------------------------------------------------------------------- C2
\* the tasks in the queue when line 172 has run for the last time and no
\* thread has been started
TasksBuilt == pc = "start" /\ cursor = 0

\* C2 as stated: the tasks' ranges [start, stop) are pairwise disjoint, their
\* union is [0, n_tags), and the indexes are 0..n_subsets-1 in order.
C2_AsStated ==
    TasksBuilt =>
        /\ \A i \in 1..Len(worker_q) : worker_q[i].index = i - 1
        /\ \A i, j \in 1..Len(worker_q) :
             i # j => Span(worker_q[i].start, worker_q[i].stop)
                        \cap Span(worker_q[j].start, worker_q[j].stop) = {}
        /\ UNION {Span(worker_q[i].start, worker_q[i].stop) : i \in 1..Len(worker_q)}
             = 0..(n_tags - 1)

\* where task i stops once the 0 of the last task is read as the end of the domain
StopOf(i) == IF i = Len(worker_q) THEN n_tags ELSE worker_q[i].stop

\* C2 amended: there are n_subsets tasks, with the indexes 0..n_subsets-1 in
\* order; the last task's stop is 0, not n_tags; with that 0 read as n_tags,
\* the ranges [start, stop) are non-empty, pairwise disjoint, and their union
\* is [0, n_tags).
C2_Tasks ==
    TasksBuilt =>
        /\ Len(worker_q) = n_subsets
        /\ \A i \in 1..Len(worker_q) : worker_q[i].index = i - 1
        /\ Len(worker_q) > 0 => worker_q[Len(worker_q)].stop = 0
        /\ \A i \in 1..Len(worker_q) : Span(worker_q[i].start, StopOf(i)) # {}
        /\ \A i, j \in 1..Len(worker_q) :
             i # j => Span(worker_q[i].start, StopOf(i))
                        \cap Span(worker_q[j].start, StopOf(j)) = {}
        /\ UNION {Span(worker_q[i].start, StopOf(i)) : i \in 1..Len(worker_q)}
             = 0..(n_tags - 1)

\* 10 tags in subsets of 3: the tasks (0,0,3), (1,3,6), (2,6,9), (3,9,0)
C2_Witness ==
    /\ TasksBuilt
    /\ n_tags = 10 /\ subset_size = 3
    /\ worker_q = << [index |-> 0, start |-> 0, stop |-> 3],
                     [index |-> 1, start |-> 3, stop |-> 6],
                     [index |-> 2, start |-> 6, stop |-> 9],
                     [index |-> 3, start |-> 9, stop |-> 0] >>

\* ------------------------------------------------------------------- C3
\* C3: when main lists, folds or deletes checkpoint files, or annotates, no
\* worker thread is live.
C3_MergeAfterJoin ==
    (pc \in {"glob", "raised_glob", "merge", "raised_merge", "annotate", "returned"}
        \/ pmap_files # {} \/ merged # {} \/ unlinked # {} \/ parts # {})
    => \A w \in Workers : ~Live(w)

\* the fold is under way after two workers ran, one to the empty queue
C3_Witness ==
    /\ pc = "merge" /\ merged # {}
    /\ threads = 2
    /\ \E w \in Workers : wpc[w] = "exited"
    /\ \E i \in Indexes : saved[i] = 1

\* ------------------------------------------------------------------- C4
\* a checkpoint file was there for every subset index of the run when it began
AllPrior == \A i \in Indexes : i < n_subsets => prior[i].exists

\* C4: when a checkpoint file exists beforehand for every subset index of the
\* run, no worker calls do_subset_partition or opens a checkpoint file for
\* writing, every task taken from the queue is skipped, and until main deletes
\* them the checkpoint files are what they were.
C4_Idempotent ==
    (Planned /\ AllPrior) =>
        /\ \A i \in Indexes : computed[i] = 0 /\ saved[i] = 0
        /\ \A w \in Workers : wpc[w] \notin {"partition", "save", "write", "failed"}
        /\ \A i \in Indexes :
             got[i] >= 1 =>
                \/ i \in skipped
                \/ \E w \in Workers : wpc[w] = "exists" /\ witem[w].index = i
        /\ unlinked = {} => disk = prior

\* two or more subsets, all of them skipped, the workers gone
C4_Witness ==
    /\ Planned /\ AllPrior /\ WorkersEnded
    /\ n_subsets >= 2
    /\ skipped = {i \in Indexes : i < n_subsets}

\* ------------------------------------------------------------------- C5
\* checkpoint files were there beforehand exactly for the indexes below k
PriorPrefix(k) == \A i \in Indexes : prior[i].exists <=> i < k

C6_AllCheckpoints ==
    (PriorPrefix(0) /\ WorkersEnded /\ threads >= 1 /\ ~Failed /\ unlinked = {}) =>
        \A i \in Indexes :
            /\ disk[i].exists <=> i < n_subsets
            /\ i < n_subsets =>
                 disk[i] = PmapFile(divvy[i + 1], divvy[i + 2], TRUE, TRUE)

\* two workers over three tasks leave three checkpoint files
C6_Witness ==
    /\ PriorPrefix(0) /\ WorkersEnded /\ ~Failed /\ unlinked = {}
    /\ threads = 2 /\ n_subsets = 3
    /\ Glob = {0, 1, 2}

\* ------------------------------------------------------------------- C7
\* nothing of the partition stage has happened
NothingPartitioned ==
    /\ divvy = <<>> /\ worker_q = <<>>
    /\ \A w \in Workers : wpc[w] = "none"
    /\ \A i \in Indexes : got[i] = 0 /\ computed[i] = 0 /\ saved[i] = 0
    /\ disk = prior

\* an fp rate above the threshold was reported
HighFpRate == fp_rate > FpThreshold

C8_Cleanup ==
    (remove_subsets /\ pc \in {"annotate", "returned"}) =>
        \A i \in Indexes : ~disk[i].exists

\* the merge stage deleted two files or more, one of them not of this run
C8_Witness ==
    /\ remove_subsets /\ pc = "annotate"
    /\ Cardinality(unlinked) >= 2
    /\ \E i \in unlinked : i >= n_subsets

\* ------------------------------------------------------------------- C9
\* C9: under --keep-subsets no step of main from the join on (the listing, the
\* fold, the test of line 218, the annotation) changes a checkpoint file.
C9_Retention ==
    [][(~remove_subsets /\ pc \in {"glob", "merge", "annotate"}) => disk' = disk]_vars

\* a run under --keep-subsets that returned, with the files it folded on disk
C9_Witness ==
    /\ ~remove_subsets /\ pc = "returned"
    /\ Cardinality(pmap_files) >= 2
    /\ pmap_files = Glob
    /\ \E i \in pmap_files : disk[i].fresh

\* ------------------------------------------------------------------ C10
\* C10: main folds, deletes, annotates or returns with status 0 only after a
\* listing that found a checkpoint file; a listing that finds none ends the
\* main thread there, with exit status 1 and nothing folded, deleted or
\* annotated.
C10_NothingToMerge ==
    /\ (pc \in {"merge", "raised_merge", "annotate", "returned"}
          \/ merged # {} \/ unlinked # {} \/ parts # {} \/ exit_status = 0)
       => pmap_files # {}
    /\ pc = "merge" => pmap_files = Glob
    /\ pc = "raised_glob" =>
         /\ Glob = {} /\ pmap_files = {}
         /\ exit_status = 1
         /\ merged = {} /\ unlinked = {} /\ parts = {}

\* both workers of a run failed, and the listing found nothing
C10_Witness ==
    /\ pc = "raised_glob"
    /\ threads = 2
    /\ \A w \in 1..2 : wpc[w] = "failed"

\* ------------------------------------------------------------------ C11
\* the worker threads started so far
Started == {w \in Workers : wpc[w] # "none"}

\* C11: args.threads becomes min(configured thread count, n_subsets) before
\* the start loop and does not change afterwards; when main leaves the start
\* loop exactly args.threads threads have been started; and no thread is
\* started outside that loop.
C11_PoolSize ==
    [][ /\ pc = "enqueue" => threads' = Min(threads, n_subsets)
        /\ pc # "enqueue" => threads' = threads
        /\ (pc = "start" /\ pc' # "start") => Cardinality(Started) = threads
        /\ pc # "start" => Started' = Started
        /\ Cardinality(Started') <= threads' ]_vars

\* main waits for the two threads it started over three tasks
C11_Witness ==
    /\ pc = "join"
    /\ n_subsets = 3 /\ threads = 2
    /\ Cardinality(Started) = 2

\* ------------------------------------------------------------------ C12
\* the indexes of the checkpoint files folded so far
FoldedIndexes == {m.index : m \in merged}

\* C12 as stated: a worker that raises leaves no checkpoint file for its
\* subset; the workers that did not raise drain the queue; and once the
\* workers have ended, the main thread (its fold not raising) ends by
\* returning with exit status 0 after folding every checkpoint file there
\* is, whenever there is at least one, failed workers or not.
C12_AsStated ==
    /\ \A w \in Workers : wpc[w] = "failed" => ~disk[witem[w].index].exists
    /\ (WorkersEnded /\ \E w \in Workers : wpc[w] = "exited") => worker_q = <<>>
    /\ (Failed /\ WorkersEnded /\ pc \in Ended \ {"raised_merge"}
          /\ (Glob # {} \/ unlinked # {}))
       => /\ pc = "returned" /\ exit_status = 0
          /\ FoldedIndexes = pmap_files

\* ------------------------------------------------------------------ C13
\* C13 as stated, in the states where no write is under way: a checkpoint
\* file that exists holds its subset written to the end.
C13_AsStated ==
    (\A w \in Workers : wpc[w] # "write") =>
        \A i \in Indexes : disk[i].exists => disk[i].whole

C15_FilledOnce ==
    [][ /\ pc \in {"gate", "divide", "enqueue"} => Started = {} /\ Started' = {}
        /\ pc = "enqueue" => Len(worker_q') = n_subsets
        /\ pc # "enqueue" =>
             \/ worker_q' = worker_q
             \/ worker_q # <<>> /\ worker_q' = Tail(worker_q)
        /\ got' # got => worker_q # <<>> /\ worker_q' = Tail(worker_q) ]_vars

\* a worker found the queue empty and returned while another one computes
C15_Witness ==
    /\ worker_q = <<>> /\ n_subsets >= 2
    /\ \E w \in Workers : wpc[w] = "exited"
    /\ \E w \in Workers : wpc[w] = "partition"

\* ------------------------------------------------------------------ C16
\* C16: while the fold is under way, and after a fold that raised, nothing is
\* unlinked and every listed file is on disk; a listed file is gone only once
\* every listed file has been folded; and the files unlinked are exactly the
\* files folded.
C16_DeleteAfterFold ==
    /\ pc \in {"merge", "raised_merge"} =>
         /\ unlinked = {}
         /\ Glob = pmap_files
    /\ (\E i \in pmap_files : ~disk[i].exists) => FoldedIndexes = pmap_files
    /\ unlinked # {} => unlinked = FoldedIndexes /\ unlinked = pmap_files

\* without --keep-subsets a fold raised after its first file: every listed
\* file is still there
C16_Witness ==
    /\ pc = "raised_merge" /\ remove_subsets
    /\ merged # {}
    /\ Cardinality(pmap_files) >= 2
    /\ Glob = pmap_files

MainRank ==
    [gate |-> 8, divide |-> 7, enqueue |-> 6, start |-> 5, join |-> 4, glob |-> 3,
     merge |-> 2, annotate |-> 1, exit_gate |-> 0, raised_assert |-> 0,
     raised_glob |-> 0, raised_merge |-> 0, returned |-> 0]

\* how far a worker is from its next get, or from its end after the last one
WorkerRank ==
    [exists |-> 5, partition |-> 4, save |-> 3, write |-> 2, none |-> 2, get |-> 1,
     exited |-> 0, failed |-> 0]

RECURSIVE WorkersRank(_)
WorkersRank(k) == IF k = 0 THEN 0 ELSE WorkerRank[wpc[k]] + WorkersRank(k - 1)

\* the steps the run has left at most: the stages of the main thread, the
\* files left to fold, the tasks left in the queue and the workers' positions
Measure ==
    (6 * MaxTags + 1) * MainRank[pc] + (Cardinality(pmap_files) - Cardinality(merged))
        + 6 * Len(worker_q) + WorkersRank(MaxThreads)

\* every thread that has not ended can take a step that changes the state; the
\* main thread at the join once no worker is alive
Progress ==
    /\ \A w \in Workers : Live(w) => ENABLED <<worker(w)>>_vars
    /\ (pc \notin Ended /\ (pc = "join" => \A w \in Workers : ~Live(w)))
          => ENABLED <<main>>_vars

PastAssertion == {"join", "glob", "merge", "annotate"}

C17_Eventually ==
    /\ <>(pc \in Ended /\ \A w \in Workers : ~Live(w))
    /\ (pc = "join") ~> (pc \in {"returned", "raised_glob", "raised_merge"})

C18_AsStated ==
    (pc = "start" /\ cursor >= threads /\ ~Failed) => active_count = threads + 1

\* ------------------------------------------------------------------ C19
\* the current run's descriptor with this index
Descriptor(index) == WorkItems(divvy, n_subsets)[index + 1]

\* C19 as stated: every checkpoint file a worker skipped, and every file the
\* merge folded, has an index in 0..n_subsets-1 and was computed over the
\* [start, stop) range of the current run's descriptor with that index.
C19_AsStated ==
    /\ \A i \in skipped :
         disk[i].exists =>
            /\ i < n_subsets
            /\ disk[i].start = Descriptor(i).start
            /\ disk[i].stop = Descriptor(i).stop
    /\ \A m \in merged :
         /\ m.index < n_subsets
         /\ m.start = Descriptor(m.index).start
         /\ m.stop = Descriptor(m.index).stop

\* ------------------------------------------------------------------ C20
\* C20 as stated: after the annotation there are as many output files as
\* input paths, and every input's annotated output is among them.
C20_AsStated ==
    pc = "returned" =>
        /\ Cardinality(parts) = Len(input_filenames)
        /\ \A k \in 1..Len(input_filenames) :
             \E f \in parts : f.from = input_filenames[k]

====
